---------------------------- MODULE Spec2Model ----------------------------
(***************************************************************************)
(* A model of pracpred.prob: the exact probability type Prob (prob.py) and *)
(* the discrete finite distribution ProbDist (probdist.py).                *)
(*                                                                         *)
(* Three specifications share the variables:                               *)
(*   SpecProb  Prob construction, the six odds properties and the six      *)
(*             inverse constructors, on bounded (numerator, denominator).  *)
(*   SpecKey   the joint-key policy ProbDist._key on bounded operands.     *)
(*   Spec      one ProbDist instance: its construction from a bounded      *)
(*             Counter input, then any sequence of its methods.            *)
(***************************************************************************)
EXTENDS Integers, Sequences, FiniteSets, TLC

VARIABLES
    numerator,        \* Prob spec: the numerator argument
    denominator,      \* Prob spec: the denominator argument (None allowed)
    e1, e2,           \* Key spec: the two outcomes handed to _key
    key_type,         \* Key spec: None or "tuple"
    separator,        \* Key spec: the separator text
    args,             \* Dist spec: the Counter input ProbDist(...) is built from
    obj,              \* "none" before construction, "ProbDist" once __init__ returned
    space,            \* self._space: ordered <<outcome, probability>> entries
    uniform,          \* self._uniform
    hashv,            \* self._hash (None until first hashed)
    sorted_outcomes,  \* self._sorted_outcomes (None until _setup_sampling)
    sorted_probs,     \* self._sorted_probs
    sorted_sumprobs,  \* self._sorted_sumprobs
    setups,           \* history: how many times _setup_sampling ran on self
    call,             \* the last call made: [op |-> ..., ...]
    ret               \* what it returned: [exc |-> "" or exception name, v |-> value]

vars == <<numerator, denominator, e1, e2, key_type, separator, args, obj, space,
          uniform, hashv, sorted_outcomes, sorted_probs, sorted_sumprobs,
          setups, call, ret>>

keyVars == <<e1, e2, key_type, separator>>
probVars == <<numerator, denominator>>
selfVars == <<args, obj, space, uniform, hashv, sorted_outcomes, sorted_probs,
              sorted_sumprobs, setups>>

\* Python's None where a number is expected (denominator=None, key_type=None).
None == [k |-> "None", n |-> 0, d |-> 1]

-----------------------------------------------------------------------------
(* Bounds of the model.                                                    *)

\* Prob spec: numerators and denominators range over -1..MaxNum.
MaxNum == 6
\* Dist spec: an iterable of outcomes has at most MaxLen elements,
MaxLen == 3
\* a mapping input has at most MaxKeys entries, with weights in -1..MaxWeight;
MaxKeys == 2
MaxWeight == 1
\* draws and rankings ask for 0..MaxK outcomes, repeated for 0..MaxRepeat trials;
MaxK == 2
MaxRepeat == 2
\* _setup_sampling is followed for at most MaxSetups runs on one instance.
MaxSetups == 2
\* Key spec: the characters of a text are the code points 0..MaxChar.
MaxChar == 255

-----------------------------------------------------------------------------
(* Numbers: int, fractions.Fraction and the float values the code makes.   *)
(* A number is [k, n, d]: k = "int" (d = 1), k = "Fraction" (n/d in lowest *)
(* terms, d > 0), or k = "float", where d = 0 is an infinity of sign n and *)
(* n = 0, d = 1 is 0.0 or -0.0 (the code treats the two alike).            *)

Abs(x) == IF x < 0 THEN -x ELSE x

RECURSIVE GCDNat(_, _)
GCDNat(a, b) == IF b = 0 THEN a ELSE GCDNat(b, a % b)
GCD(a, b) == GCDNat(Abs(a), Abs(b))

\* Fraction(n, d) for integers n, d with d # 0: lowest terms, d > 0.
Frac(n, d) ==
    LET g == GCD(n, d)
        s == IF d < 0 THEN -1 ELSE 1
    IN  [k |-> "Fraction", n |-> s * (n \div g), d |-> s * (d \div g)]

IntV(n) == [k |-> "int", n |-> n, d |-> 1]
Inf == [k |-> "float", n |-> 1, d |-> 0]
NegInf == [k |-> "float", n |-> -1, d |-> 0]
FloatZero == [k |-> "float", n |-> 0, d |-> 1]

IsFloat(x) == x.k = "float"
IsInfinite(x) == x.k = "float" /\ x.d = 0

\* Exact arithmetic on int/Fraction operands (the result is a Fraction).
Add(x, y) == Frac(x.n * y.d + y.n * x.d, x.d * y.d)
Sub(x, y) == Frac(x.n * y.d - y.n * x.d, x.d * y.d)
Mul(x, y) == Frac(x.n * y.n, x.d * y.d)
\* x / y, y # 0
Div(x, y) == Frac(x.n * y.d, x.d * y.n)

\* Comparison of finite numbers and infinities by value.
Lt(x, y) ==
    IF IsInfinite(x) THEN x.n < 0 /\ ~(IsInfinite(y) /\ y.n < 0)
    ELSE IF IsInfinite(y) THEN y.n > 0
    ELSE x.n * y.d < y.n * x.d
Eq(x, y) ==
    IF IsInfinite(x) \/ IsInfinite(y) THEN IsInfinite(x) /\ IsInfinite(y) /\ x.n = y.n
    ELSE x.n * y.d = y.n * x.d
IsZero(x) == ~IsInfinite(x) /\ x.n = 0

Zero == IntV(0)
One == IntV(1)

\* A returned value, or a raised exception.
Return(v) == [exc |-> "", v |-> v]
Raise(e) == [exc |-> e, v |-> Zero]
Raised(r) == r.exc # ""

\* 1/x as Python evaluates it: ZeroDivisionError on an exact or float zero,
\* 0.0 for an infinity, the exact reciprocal otherwise.
Recip(x) ==
    IF IsInfinite(x) THEN Return(FloatZero)
    ELSE IF x.n = 0 THEN Raise("ZeroDivisionError")
    ELSE Return(Div(One, x))

-----------------------------------------------------------------------------
(* prob.py: class Prob(Fraction)                                           *)

Hundred == 100

\* Prob._ratio_from_float(f), on the float values the code itself produces
\* (the odds properties return math.inf, -math.inf and 1/inf = 0.0):
\* int(f) raises OverflowError on an infinity; int(0.0) == 0.0 gives (0, 1).
_ratio_from_float(f) ==
    IF IsInfinite(f) THEN Raise("OverflowError")
    ELSE Return(<<IntV(f.n), IntV(1)>>)

\* Fraction(numerator, denominator) as _format calls it: denominator None
\* gives the numerator's own value; a zero denominator raises
\* ZeroDivisionError; a float operand next to a denominator is a TypeError.
Fraction(num, den) ==
    IF den = None THEN Return(Frac(num.n, num.d))
    ELSE IF IsFloat(num) \/ IsFloat(den) THEN Raise("TypeError")
    ELSE IF den.n = 0 THEN Raise("ZeroDivisionError")
    ELSE Return(Div(num, den))

\* "not denominator": None, 0 and 0.0 are falsy.
Falsy(den) == den = None \/ IsZero(den)

\* Prob._format(numerator, denominator): the Fraction of the two, a float
\* numerator with a falsy denominator first replaced by its digit ratio.
_format(num, den) ==
    IF IsFloat(num) /\ Falsy(den)
    THEN LET r == _ratio_from_float(num)
         IN  IF Raised(r) THEN r ELSE Fraction(r.v[1], r.v[2])
    ELSE Fraction(num, den)

\* A mutant of Prob.__new__ without the upper range check.
ProbWithoutUpperCheck(num, den) ==
    LET r == _format(num, den)
    IN  IF Raised(r) THEN r
        ELSE IF Lt(r.v, Zero) THEN Raise("ValueError")
        ELSE r

\* Prob.__new__(cls, numerator, denominator)
Prob(num, den) ==
    LET r == _format(num, den)
    IN  IF Raised(r) THEN r
        ELSE IF Lt(r.v, Zero) THEN Raise("ValueError")
        ELSE IF Lt(One, r.v) THEN Raise("ValueError")
        ELSE r

\* Prob.fractional_odds_against
fractional_odds_against(self) ==
    IF Lt(Zero, self) THEN Return(Sub(Div(One, self), One)) ELSE Return(Inf)

\* Prob.fractional_odds_on
fractional_odds_on(self) == Recip(fractional_odds_against(self).v)

\* Prob.decimal_odds_against
decimal_odds_against(self) ==
    IF Lt(Zero, self) THEN Return(Div(One, self)) ELSE Return(Inf)

\* Prob.decimal_odds_on
decimal_odds_on(self) == Recip(decimal_odds_against(self).v)

\* Prob.moneyline_odds_against
moneyline_odds_against(self) ==
    IF Eq(self, One) THEN Return(NegInf)
    ELSE IF Lt(Frac(1, 2), self)
         THEN Return(Div(Mul(IntV(-Hundred), self), Sub(One, self)))
    ELSE IF Lt(Zero, self)
         THEN Return(Div(Mul(IntV(Hundred), Sub(One, self)), self))
    ELSE Return(Inf)

\* Prob.moneyline_odds_on
moneyline_odds_on(self) == Recip(moneyline_odds_against(self).v)

\* Prob._format_fractional(n, d): the (numerator, denominator) of the odds
_format_fractional(n, d) ==
    LET r == _format(n, d)
    IN  IF Raised(r) THEN r
        ELSE IF Lt(r.v, Zero) THEN Raise("ValueError")
        ELSE Return(<<IntV(r.v.n), IntV(r.v.d)>>)

\* Prob._format_decimal(n, d)
_format_decimal(n, d) ==
    LET r == _format(n, d)
    IN  IF Raised(r) THEN r
        ELSE IF ~Lt(Zero, r.v) THEN Raise("ValueError")
        ELSE Return(<<IntV(r.v.n), IntV(r.v.d)>>)

\* Prob._format_moneyline(n, d)
_format_moneyline(n, d) ==
    LET r == _format(n, d)
    IN  IF Raised(r) THEN r
        ELSE IF Lt(Zero, r.v)
             THEN LET odds == Div(r.v, IntV(Hundred))
                  IN  Return(<<IntV(odds.n), IntV(odds.d)>>)
        ELSE IF Lt(r.v, Zero)
             THEN LET odds == Div(IntV(-Hundred), r.v)
                  IN  Return(<<IntV(odds.n), IntV(odds.d)>>)
        ELSE Raise("ValueError")

IntAdd(a, b) == IntV(a.n + b.n)

\* Prob.from_fractional_odds_against
from_fractional_odds_against(num, den) ==
    LET r == _format_fractional(num, den)
    IN  IF Raised(r) THEN r ELSE Prob(r.v[2], IntAdd(r.v[1], r.v[2]))

\* Prob.from_fractional_odds_on
from_fractional_odds_on(num, den) ==
    LET r == _format_fractional(num, den)
    IN  IF Raised(r) THEN r ELSE Prob(r.v[1], IntAdd(r.v[1], r.v[2]))

\* Prob.from_decimal_odds_against
from_decimal_odds_against(num, den) ==
    LET r == _format_decimal(num, den)
    IN  IF Raised(r) THEN r ELSE Prob(r.v[2], r.v[1])

\* Prob.from_decimal_odds_on
from_decimal_odds_on(num, den) ==
    LET r == _format_decimal(num, den)
    IN  IF Raised(r) THEN r ELSE Prob(r.v[1], r.v[2])

\* Prob.from_moneyline_odds_against
from_moneyline_odds_against(num, den) ==
    LET r == _format_moneyline(num, den)
    IN  IF Raised(r) THEN r ELSE Prob(r.v[2], IntAdd(r.v[1], r.v[2]))

\* Prob.from_moneyline_odds_on
from_moneyline_odds_on(num, den) ==
    LET r == _format_moneyline(num, den)
    IN  IF Raised(r) THEN r ELSE Prob(r.v[1], IntAdd(r.v[1], r.v[2]))

\* The odds forms, and each form's property and matching inverse constructor.
OddsForms == {"fractional_odds_against", "fractional_odds_on",
              "decimal_odds_against", "decimal_odds_on",
              "moneyline_odds_against", "moneyline_odds_on"}

OddsProperty(form, self) ==
    CASE form = "fractional_odds_against" -> fractional_odds_against(self)
      [] form = "fractional_odds_on" -> fractional_odds_on(self)
      [] form = "decimal_odds_against" -> decimal_odds_against(self)
      [] form = "decimal_odds_on" -> decimal_odds_on(self)
      [] form = "moneyline_odds_against" -> moneyline_odds_against(self)
      [] form = "moneyline_odds_on" -> moneyline_odds_on(self)

FromOdds(form, num, den) ==
    CASE form = "fractional_odds_against" -> from_fractional_odds_against(num, den)
      [] form = "fractional_odds_on" -> from_fractional_odds_on(num, den)
      [] form = "decimal_odds_against" -> from_decimal_odds_against(num, den)
      [] form = "decimal_odds_on" -> from_decimal_odds_on(num, den)
      [] form = "moneyline_odds_against" -> from_moneyline_odds_against(num, den)
      [] form = "moneyline_odds_on" -> from_moneyline_odds_on(num, den)

-----------------------------------------------------------------------------
(* Outcomes: the hashable values a distribution is over.  An outcome is    *)
(* [t, i, c, s]: an int (t = "int", value i), a str (t = "str", text c) or *)
(* a tuple (t = "tuple", elements s).  A text is the sequence of the code  *)
(* points of its characters, each in 0..MaxChar.                           *)

IntO(i) == [t |-> "int", i |-> i, c |-> <<>>, s |-> <<>>]
StrO(c) == [t |-> "str", i |-> 0, c |-> c, s |-> <<>>]
TupO(s) == [t |-> "tuple", i |-> 0, c |-> <<>>, s |-> s]

IsTuple(x) == x.t = "tuple"

\* The decimal digits of a natural number ('0' is 48).
RECURSIVE Digits(_)
Digits(n) == IF n < 10 THEN <<48 + n>> ELSE Digits(n \div 10) \o <<48 + (n % 10)>>

\* repr of an int: its decimal digits, after '-' (45) when negative
Decimal(i) == IF i < 0 THEN <<45>> \o Digits(-i) ELSE Digits(i)

\* One lower-case hexadecimal digit ('0' is 48, 'a' is 97).
HexDigit(d) == IF d < 10 THEN 48 + d ELSE 87 + d

\* n in hexadecimal, zero-padded to width digits
RECURSIVE Hex(_, _)
Hex(n, width) ==
    IF width = 0 THEN <<>> ELSE Hex(n \div 16, width - 1) \o <<HexDigit(n % 16)>>

\* str.isprintable of a character outside ASCII, for the code points of
\* Latin-1 and the Latin Extended blocks (128..887): the C1 controls
\* 128..159, the no-break space 160 and the soft hyphen 173 are not
\* printable, every other one is.
Printable(ch) == 161 <= ch /\ ch # 173 /\ ch <= 887

\* The character ch occurs in the text c.
Contains(c, ch) == \E i \in 1..Len(c) : c[i] = ch

\* The quote repr puts around a str: the double quote (34) when the text
\* holds a single quote (39) and no double quote, the single quote otherwise.
QuoteOf(c) == IF Contains(c, 39) /\ ~Contains(c, 34) THEN 34 ELSE 39

\* One character as repr writes it inside the quote q, in repr's order:
\* the quote and the backslash (92) after a backslash; tab, newline and
\* carriage return as \t, \n, \r; any other character below the space, and
\* DEL (127), as \xNN; the rest of ASCII as it is; beyond ASCII a printable
\* character as it is and a non-printable one as \xNN, \uNNNN or \UNNNNNNNN.
EscapeChar(ch, q) ==
    IF ch = q \/ ch = 92 THEN <<92, ch>>
    ELSE IF ch = 9 THEN <<92, 116>>
    ELSE IF ch = 10 THEN <<92, 110>>
    ELSE IF ch = 13 THEN <<92, 114>>
    ELSE IF ch < 32 \/ ch = 127 THEN <<92, 120>> \o Hex(ch, 2)
    ELSE IF ch < 127 THEN <<ch>>
    ELSE IF Printable(ch) THEN <<ch>>
    ELSE IF ch <= 255 THEN <<92, 120>> \o Hex(ch, 2)
    ELSE IF ch <= 65535 THEN <<92, 117>> \o Hex(ch, 4)
    ELSE <<92, 85>> \o Hex(ch, 8)

RECURSIVE Escape(_, _, _)
Escape(c, i, q) ==
    IF i > Len(c) THEN <<>> ELSE EscapeChar(c[i], q) \o Escape(c, i + 1, q)

\* repr of a str
ReprStr(c) == LET q == QuoteOf(c) IN <<q>> \o Escape(c, 1, q) \o <<q>>

RECURSIVE JoinRepr(_, _)
RECURSIVE Repr(_)
\* repr(x): an int in decimal, a str quoted and escaped, a tuple as its
\* elements' reprs joined by ", " (44, 32) inside "(" (40) and ")" (41),
\* with a trailing comma for a single element
Repr(x) ==
    CASE x.t = "int" -> Decimal(x.i)
      [] x.t = "str" -> ReprStr(x.c)
      [] x.t = "tuple" ->
            IF Len(x.s) = 1 THEN <<40>> \o Repr(x.s[1]) \o <<44, 41>>
            ELSE <<40>> \o JoinRepr(x.s, 1) \o <<41>>
JoinRepr(s, i) ==
    IF i > Len(s) THEN <<>>
    ELSE IF i = Len(s) THEN Repr(s[i])
    ELSE Repr(s[i]) \o <<44, 32>> \o JoinRepr(s, i + 1)

\* str(x): a str is itself, anything else prints as its repr
Str(x) == IF x.t = "str" THEN x.c ELSE Repr(x)

\* e1 + e2: defined for two ints, two strs or two tuples; a TypeError otherwise
Plus(a, b) ==
    IF a.t # b.t THEN Raise("TypeError")
    ELSE CASE a.t = "int" -> [exc |-> "", v |-> IntO(a.i + b.i)]
           [] a.t = "str" -> [exc |-> "", v |-> StrO(a.c \o b.c)]
           [] a.t = "tuple" -> [exc |-> "", v |-> TupO(a.s \o b.s)]

-----------------------------------------------------------------------------
(* probdist.py: ProbDist._key                                              *)

TupleType == [k |-> "tuple", n |-> 0, d |-> 1]

\* A mutant of _key that tests key_type before the separator.
_key_type_first(a, b, kt, sep) ==
    IF kt = TupleType
    THEN IF IsTuple(a) /\ IsTuple(b) THEN TupO(a.s \o b.s)
         ELSE IF IsTuple(a) THEN TupO(a.s \o <<b>>)
         ELSE IF IsTuple(b) THEN TupO(<<a>> \o b.s)
         ELSE TupO(<<a, b>>)
    ELSE IF sep # <<>> THEN StrO(Str(a) \o sep \o Str(b))
    ELSE IF Raised(Plus(a, b)) THEN TupO(<<a, b>>) ELSE Plus(a, b).v

\* ProbDist._key(e1, e2, key_type, separator); the bare except turns any
\* failure of the chosen branch into the pair (e1, e2).
_key(a, b, kt, sep) ==
    IF sep # <<>> THEN StrO(Str(a) \o sep \o Str(b))
    ELSE IF kt # TupleType
         THEN IF Raised(Plus(a, b)) THEN TupO(<<a, b>>) ELSE Plus(a, b).v
    ELSE IF IsTuple(a) \/ IsTuple(b)
         THEN IF IsTuple(a) /\ IsTuple(b) THEN TupO(a.s \o b.s)
              ELSE IF IsTuple(a) THEN TupO(a.s \o <<b>>)
              ELSE TupO(<<a>> \o b.s)
    ELSE TupO(<<a, b>>)

-----------------------------------------------------------------------------
(* collections.Counter, as ProbDist uses it: a dict, so an ordered         *)
(* sequence of entries [k |-> outcome, p |-> number] with distinct keys.   *)

Keys(c) == [j \in 1..Len(c) |-> c[j].k]
KeySet(c) == {c[j].k : j \in 1..Len(c)}
Index(c, x) == CHOOSE j \in 1..Len(c) : c[j].k = x

\* sum(values); sum starts from the int 0
RECURSIVE SumFrom(_, _)
SumFrom(c, j) == IF j > Len(c) THEN Zero ELSE Add(c[j].p, SumFrom(c, j + 1))
Sum(c) == IF c = <<>> THEN Zero ELSE SumFrom(c, 1)

\* A mutant of "+=": the key is assigned, not accumulated (c[x] = v).
CounterSet(c, x, v) ==
    IF x \in KeySet(c) THEN [c EXCEPT ![Index(c, x)].p = Add(Zero, v)]
    ELSE Append(c, [k |-> x, p |-> Add(Zero, v)])

\* c[x] += v  (a missing key starts from 0 and is appended)
CounterAdd(c, x, v) ==
    IF x \in KeySet(c)
    THEN [c EXCEPT ![Index(c, x)].p = Add(c[Index(c, x)].p, v)]
    ELSE Append(c, [k |-> x, p |-> Add(Zero, v)])

\* Counter(iterable): counts the occurrences, in order of first occurrence
RECURSIVE CountFrom(_, _, _)
CountFrom(items, j, c) ==
    IF j > Len(items) THEN c
    ELSE CountFrom(items, j + 1,
             IF items[j] \in KeySet(c)
             THEN [c EXCEPT ![Index(c, items[j])].p = IntV(c[Index(c, items[j])].p.n + 1)]
             ELSE Append(c, [k |-> items[j], p |-> IntV(1)]))

\* Counter(*args): a mapping is copied entry by entry, an iterable counted
Counter(a) ==
    IF a.kind = "mapping" THEN a.items ELSE CountFrom(a.items, 1, <<>>)

\* A mutant of the lookup: a defaultdict-style miss, which stores the 0.
MissingInserts(c, x) ==
    IF x \in KeySet(c) THEN c ELSE Append(c, [k |-> x, p |-> Zero])

\* The Counter after reading c[x]: Counter.__missing__ returns 0 and stores
\* nothing, so the mapping is as it was.
AfterLookup(c, x) == c

\* ProbDist.__getitem__: self._space[outcome], 0 for a non-member
__getitem__(c, x) == IF x \in KeySet(c) THEN c[Index(c, x)].p ELSE Zero

-----------------------------------------------------------------------------
(* probdist.py: ProbDist                                                   *)

\* A lazily filled slot: None, or a list.
NoneL == [none |-> TRUE, v |-> <<>>]
Some(l) == [none |-> FALSE, v |-> l]
\* "not self._sorted_outcomes": None and the empty list are both falsy
NotTruthy(o) == o.none \/ o.v = <<>>

\* The normalisation loop of __init__ from entry j on: each weight becomes
\* Prob(weight, total); uniform is kept while every probability equals the
\* first one.  A Prob that raises ends the construction.
RECURSIVE Normalize(_, _, _, _, _)
Normalize(c, j, total, unif, last) ==
    IF j > Len(c) THEN [exc |-> "", v |-> [space |-> c, uniform |-> unif, new |-> TRUE]]
    ELSE LET pr == Prob(c[j].p, total)
         IN  IF Raised(pr) THEN [exc |-> pr.exc, v |-> [space |-> <<>>, uniform |-> TRUE, new |-> TRUE]]
             ELSE Normalize([c EXCEPT ![j].p = pr.v], j + 1, total,
                            IF j = 1 THEN unif
                            ELSE IF unif THEN pr.v = last ELSE unif,
                            IF j = 1 THEN pr.v ELSE last)

\* ProbDist(c): __init__ on the Counter c.  Raise, or Return of the new
\* object's mapping and uniform flag (new: an object the call created).
ProbDist(c) == Normalize(c, 1, Sum(c), TRUE, Zero)

\* Predicates: a callable over outcomes, or an explicit collection.
Apply(f, x) ==
    CASE f = "is_str" -> x.t = "str"
      [] f = "is_int" -> x.t = "int"
      [] f = "always" -> TRUE
      [] f = "never" -> FALSE

Callable(f) == [callable |-> TRUE, f |-> f, members |-> {}]
Collection(S) == [callable |-> FALSE, f |-> "", members |-> S]

\* ProbDist.subset(predicate)
subset(c, pred) == {x \in KeySet(c) : Apply(pred.f, x)}

\* ProbDist._satisfying(predicate)
_satisfying(c, pred) == IF pred.callable THEN subset(c, pred) ELSE pred.members

\* {x: self._space[x] for x in self._space if x in outcomes}
RECURSIVE Select(_, _, _)
Select(c, j, S) ==
    IF j > Len(c) THEN <<>>
    ELSE IF c[j].k \in S THEN <<c[j]>> \o Select(c, j + 1, S)
    ELSE Select(c, j + 1, S)

\* ProbDist.prob(predicate)
prob(c, pred) == Prob(Sum(Select(c, 1, _satisfying(c, pred))), None)

\* A mutant of such_that that keeps the complement of the predicate.
such_that_complement(c, pred) ==
    ProbDist(Select(c, 1, KeySet(c) \ _satisfying(c, pred)))

\* ProbDist.such_that(predicate)
such_that(c, pred) == ProbDist(Select(c, 1, _satisfying(c, pred)))

\* ProbDist.remove(events)
remove(c, events) == ProbDist(Select(c, 1, KeySet(c) \ events))

\* The loop of joint over product(self, other), from pair (i, j) on
RECURSIVE JointFrom(_, _, _, _, _, _, _)
JointFrom(c, o, i, j, kt, sep, result) ==
    IF i > Len(c) \/ Len(o) = 0 THEN result
    ELSE LET next == CounterAdd(result, _key(c[i].k, o[j].k, kt, sep),
                                Mul(__getitem__(c, c[i].k), __getitem__(o, o[j].k)))
         IN  IF j < Len(o) THEN JointFrom(c, o, i, j + 1, kt, sep, next)
             ELSE JointFrom(c, o, i + 1, 1, kt, sep, next)

\* ProbDist.joint(other, key_type, separator) on the two mappings
joint(c, o, kt, sep) == ProbDist(JointFrom(c, o, 1, 1, kt, sep, <<>>))

\* ProbDist.__add__
__add__(c, o) == joint(c, o, None, <<>>)

\* ProbDist.repeated: ProbDist(self), then repeat-1 joints with self
RECURSIVE RepeatedFrom(_, _, _, _, _)
RepeatedFrom(result, c, times, kt, sep) ==
    IF times <= 0 \/ Raised(result) THEN result
    ELSE RepeatedFrom(joint(result.v.space, c, kt, sep), c, times - 1, kt, sep)

repeated(c, repeat, kt, sep) == RepeatedFrom(ProbDist(c), c, repeat - 1, kt, sep)

\* type(x).__name__ as a text: 'int', 'str' or 'tuple'
TypeName(x) ==
    CASE x.t = "int" -> <<105, 110, 116>>
      [] x.t = "str" -> <<115, 116, 114>>
      [] x.t = "tuple" -> <<116, 117, 112, 108, 101>>

\* Key functions handed to groupby.
KeyFn(f, x) ==
    CASE f = "type" -> StrO(TypeName(x))
      [] f = "identity" -> x
      [] f = "const" -> IntO(0)

RECURSIVE GroupFrom(_, _, _, _)
GroupFrom(c, j, f, result) ==
    IF j > Len(c) THEN result
    ELSE GroupFrom(c, j + 1, f, CounterAdd(result, KeyFn(f, c[j].k), __getitem__(c, c[j].k)))

\* ProbDist.groupby(key)
groupby(c, f) == ProbDist(GroupFrom(c, 1, f, <<>>))

\* ProbDist.__hash__: hash(frozenset(self._space.items())), the frozenset
\* standing for its hash
ItemSet(c) == {<<c[j].k, c[j].p>> : j \in 1..Len(c)}


\* sorted(self._space, key=self._space.get, reverse=True): descending by
\* probability, stable (equal probabilities keep their mapping order)
RECURSIVE InsertDesc(_, _, _)
InsertDesc(sorted, e, j) ==
    IF j > Len(sorted) THEN Append(sorted, e)
    ELSE IF Lt(sorted[j].p, e.p)
         THEN SubSeq(sorted, 1, j - 1) \o <<e>> \o SubSeq(sorted, j, Len(sorted))
    ELSE InsertDesc(sorted, e, j + 1)

RECURSIVE SortDesc(_, _, _)
SortDesc(c, j, sorted) ==
    IF j > Len(c) THEN sorted ELSE SortDesc(c, j + 1, InsertDesc(sorted, c[j], 1))

\* list(accumulate(probs)), each wrapped in Prob
RECURSIVE Accumulate(_, _, _)
Accumulate(ps, j, acc) ==
    IF j > Len(ps) THEN <<>>
    ELSE <<Prob(Add(acc, ps[j]), None).v>> \o Accumulate(ps, j + 1, Add(acc, ps[j]))

\* ProbDist._setup_sampling: the three cached lists it leaves behind
_setup_sampling(c, unif, probs, sumprobs) ==
    IF unif
    THEN [sorted_outcomes |-> Some(Keys(c)), sorted_probs |-> probs,
          sorted_sumprobs |-> sumprobs]
    ELSE LET byprob == SortDesc(c, 1, <<>>)
             ps == [j \in 1..Len(byprob) |-> byprob[j].p]
         IN  [sorted_outcomes |-> Some(Keys(byprob)), sorted_probs |-> Some(ps),
              sorted_sumprobs |-> Some(Accumulate(ps, 1, Zero))]

\* "if not self._sorted_outcomes: self._setup_sampling()", the guard that
\* opens choices, sample and most_likely
Cached ==
    IF NotTruthy(sorted_outcomes)
    THEN _setup_sampling(space, uniform, sorted_probs, sorted_sumprobs)
    ELSE [sorted_outcomes |-> sorted_outcomes, sorted_probs |-> sorted_probs,
          sorted_sumprobs |-> sorted_sumprobs]

\* self._sorted_outcomes[:n]
most_likely(outcomes, n) == SubSeq(outcomes, 1, IF n < Len(outcomes) THEN n ELSE Len(outcomes))

\* choices: "weights = self._sorted_sumprobs if self.is_uniform else None"
ChoicesWeights(unif, sumprobs) == IF unif THEN sumprobs ELSE NoneL

\* random.choices(population, cum_weights=cw, k=k): every list it can
\* return.  Without weights each element is drawn from the whole
\* population; with cumulative weights an element can be drawn iff its
\* weight interval is not empty.  An empty population raises IndexError.
Drawable(population, cw) ==
    IF cw.none THEN {population[j] : j \in 1..Len(population)}
    ELSE {population[j] : j \in {i \in 1..Len(population) :
              Lt(IF i = 1 THEN Zero ELSE cw.v[i - 1], cw.v[i])}}

RandomChoices(population, cw, k) ==
    IF k = 0 THEN {Return(<<>>)}
    ELSE IF population = <<>> THEN {Raise("IndexError")}
    ELSE {Return(l) : l \in [1..k -> Drawable(population, cw)]}

\* ProbDist.choice(): "return self.choices(1)[0]" on a result of choices(1)
choice(r) == IF Raised(r) THEN r ELSE Return(r.v[1])

Injective(l) == \A i, j \in 1..Len(l) : l[i] = l[j] => i = j

\* random.sample(population, k): the k-permutations, ValueError if k > n
RandomSample(population, k) ==
    IF k > Len(population) THEN {Raise("ValueError")}
    ELSE {Return(l) : l \in {m \in [1..k -> {population[j] : j \in 1..Len(population)}] :
                                Injective(m)}}

\* numpy.array(a) of a list of str and int outcomes: with both kinds in the
\* list every element becomes its text, str(x); a list of one kind keeps
\* its values.
NumpyArray(a) ==
    IF \E i, j \in 1..Len(a) : a[i].t = "str" /\ a[j].t = "int"
    THEN [j \in 1..Len(a) |-> StrO(Str(a[j]))]
    ELSE a

\* numpy.random.choice(a, p=p, size=k, replace=False): the k-permutations
\* of the entries of the array of a with non-zero p, ValueError if there
\* are fewer than k
NumpyChoice(a, ps, k) ==
    LET arr == NumpyArray(a)
        nz == {arr[j] : j \in {i \in 1..Len(a) : ~IsZero(ps[i])}}
    IN  IF k > Cardinality(nz) THEN {Raise("ValueError")}
        ELSE {Return(l) : l \in {m \in [1..k -> nz] : Injective(m)}}

\* ProbDist.sample(k) on the cached lists
sample(unif, outcomes, probs, k) ==
    IF unif THEN RandomSample(outcomes, k) ELSE NumpyChoice(outcomes, probs.v, k)

-----------------------------------------------------------------------------
(* The inputs.                                                             *)

\* the texts 'H' (72) and 'T' (84)
H == StrO(<<72>>)
T == StrO(<<84>>)
Outcomes == {H, T, IntO(1), IntO(2)}
Weights == {IntV(w) : w \in -1..MaxWeight}

DistinctKeys(m) == \A i, j \in 1..Len(m) : m[i].k = m[j].k => i = j

\* ProbDist(iterable) and ProbDist(mapping) arguments
Iterables == UNION {[1..n -> Outcomes] : n \in 0..MaxLen}
Mappings ==
    UNION {{m \in [1..n -> [k : Outcomes, p : Weights]] : DistinctKeys(m)} : n \in 0..MaxKeys}
Inputs == {[kind |-> "iterable", items |-> l] : l \in Iterables}
          \cup {[kind |-> "mapping", items |-> m] : m \in Mappings}

Predicates == {Callable(f) : f \in {"is_str", "is_int", "always", "never"}}
              \cup {Collection(S) : S \in SUBSET Outcomes}
KeyFns == {"type", "identity", "const"}
KeyTypes == {None, TupleType}
\* no separator, and '-' (45)
Separators == {<<>>, <<45>>}

\* The other distributions joint is called with (besides self): a fair coin,
\* a biased coin, a fair and a loaded two-sided die.
Others ==
    {ProbDist(Counter([kind |-> "iterable", items |-> l])).v.space :
        l \in {<<H, T>>, <<H, H, T>>, <<IntO(1), IntO(2)>>, <<IntO(1), IntO(2), IntO(2)>>}}

Transformations == {"such_that", "remove", "joint", "__add__", "repeated", "groupby"}

-----------------------------------------------------------------------------
(* Spec: one ProbDist instance.                                            *)

NoObject ==
    /\ space = <<>> /\ uniform = TRUE /\ hashv = [none |-> TRUE, v |-> {}]
    /\ sorted_outcomes = NoneL /\ sorted_probs = NoneL /\ sorted_sumprobs = NoneL
    /\ setups = 0

Init ==
    /\ numerator = None /\ denominator = None
    /\ e1 = H /\ e2 = H /\ key_type = None /\ separator = <<>>
    /\ args \in Inputs
    /\ obj = "none"
    /\ NoObject
    /\ call = [op |-> "start"]
    /\ ret = Return(Zero)

\* ProbDist(*args): __init__ either raises, and no object exists, or leaves
\* the normalised mapping, the uniform flag and the empty caches.
Construct ==
    /\ obj = "none" /\ call.op = "start"
    /\ LET r == ProbDist(Counter(args))
       IN  /\ call' = [op |-> "ProbDist"]
           /\ ret' = [exc |-> r.exc, v |-> Zero]
           /\ IF Raised(r)
              THEN UNCHANGED <<obj, space, uniform>>
              ELSE obj' = "ProbDist" /\ space' = r.v.space /\ uniform' = r.v.uniform
    /\ hashv' = [none |-> TRUE, v |-> {}]
    /\ sorted_outcomes' = NoneL /\ sorted_probs' = NoneL /\ sorted_sumprobs' = NoneL
    /\ UNCHANGED <<probVars, keyVars, args, setups>>

\* What a call that only reads self leaves alone.
ReadOnly == UNCHANGED <<probVars, keyVars, selfVars>>

\* The instance exists and no call is in progress.
Idle == obj = "ProbDist" /\ call.op = "idle"

\* The caller takes the result of the last call; the instance is idle again.
TakeResult ==
    /\ obj = "ProbDist" /\ call.op # "idle"
    /\ call' = [op |-> "idle"]
    /\ ret' = Return(Zero)
    /\ ReadOnly


CallProb ==
    /\ Idle
    /\ \E pred \in Predicates :
          /\ call' = [op |-> "prob", predicate |-> pred]
          /\ ret' = prob(space, pred)
    /\ ReadOnly

CallSubset ==
    /\ Idle
    /\ \E pred \in Predicates :
          /\ call' = [op |-> "subset", predicate |-> pred]
          /\ ret' = IF pred.callable \/ space = <<>>
                    THEN [exc |-> "", v |-> subset(space, pred)]
                    ELSE [exc |-> "TypeError", v |-> {}]
    /\ ReadOnly

CallSuchThat ==
    /\ Idle
    /\ \E pred \in Predicates :
          /\ call' = [op |-> "such_that", predicate |-> pred]
          /\ ret' = such_that(space, pred)
    /\ ReadOnly

CallRemove ==
    /\ Idle
    /\ \E events \in SUBSET Outcomes :
          /\ call' = [op |-> "remove", events |-> events]
          /\ ret' = remove(space, events)
    /\ ReadOnly

CallJoint ==
    /\ Idle
    /\ \E other \in Others \cup {space}, kt \in KeyTypes, sep \in Separators :
          /\ call' = [op |-> "joint", other |-> other, key_type |-> kt, separator |-> sep]
          /\ ret' = joint(space, other, kt, sep)
    /\ ReadOnly

CallAdd ==
    /\ Idle
    /\ \E other \in Others \cup {space} :
          /\ call' = [op |-> "__add__", other |-> other, key_type |-> None, separator |-> <<>>]
          /\ ret' = __add__(space, other)
    /\ ReadOnly

CallRepeated ==
    /\ Idle
    /\ \E n \in 0..MaxRepeat, kt \in KeyTypes, sep \in Separators :
          /\ call' = [op |-> "repeated", repeat |-> n, key_type |-> kt, separator |-> sep]
          /\ ret' = repeated(space, n, kt, sep)
    /\ ReadOnly

CallGroupby ==
    /\ Idle
    /\ \E f \in KeyFns :
          /\ call' = [op |-> "groupby", key |-> f]
          /\ ret' = groupby(space, f)
    /\ ReadOnly

\* self[outcome], for members and non-members
CallGetitem ==
    /\ Idle
    /\ \E x \in Outcomes :
          /\ call' = [op |-> "__getitem__", outcome |-> x]
          /\ ret' = Return(__getitem__(space, x))
          /\ space' = AfterLookup(space, x)
    /\ UNCHANGED <<probVars, keyVars, args, obj, uniform, hashv, sorted_outcomes,
                   sorted_probs, sorted_sumprobs, setups>>

\* hash(self): computed on the first call, cached in _hash
CallHash ==
    /\ Idle
    /\ hashv' = IF hashv.none THEN [none |-> FALSE, v |-> ItemSet(space)] ELSE hashv
    /\ call' = [op |-> "__hash__"]
    /\ ret' = [exc |-> "", v |-> hashv'.v]
    /\ UNCHANGED <<probVars, keyVars, args, obj, space, uniform, sorted_outcomes,
                   sorted_probs, sorted_sumprobs, setups>>

\* The cache fill that opens most_likely, choices (so choice) and sample.
FillCache ==
    /\ NotTruthy(sorted_outcomes) => setups < MaxSetups
    /\ sorted_outcomes' = Cached.sorted_outcomes
    /\ sorted_probs' = Cached.sorted_probs
    /\ sorted_sumprobs' = Cached.sorted_sumprobs
    /\ setups' = IF NotTruthy(sorted_outcomes) THEN setups + 1 ELSE setups
    /\ UNCHANGED <<probVars, keyVars, args, obj, space, uniform, hashv>>

CallMostLikely ==
    /\ Idle
    /\ FillCache
    /\ \E n \in 0..MaxK :
          /\ call' = [op |-> "most_likely", n |-> n]
          /\ ret' = Return(most_likely(sorted_outcomes'.v, n))

CallChoices ==
    /\ Idle
    /\ FillCache
    /\ \E k \in 0..MaxK :
          LET weights == ChoicesWeights(uniform, sorted_sumprobs')
          IN  /\ call' = [op |-> "choices", k |-> k, cum_weights |-> weights]
              /\ ret' \in RandomChoices(sorted_outcomes'.v, weights, k)

CallChoice ==
    /\ Idle
    /\ FillCache
    /\ LET weights == ChoicesWeights(uniform, sorted_sumprobs')
       IN  /\ call' = [op |-> "choice", k |-> 1, cum_weights |-> weights]
           /\ \E r \in RandomChoices(sorted_outcomes'.v, weights, 1) : ret' = choice(r)

CallSample ==
    /\ Idle
    /\ FillCache
    /\ \E k \in 0..MaxK :
          /\ call' = [op |-> "sample", k |-> k]
          /\ ret' \in sample(uniform, sorted_outcomes'.v, sorted_probs', k)

Next ==
    \/ Construct
    \/ TakeResult
    \/ CallProb
    \/ CallSubset
    \/ CallSuchThat
    \/ CallRemove
    \/ CallJoint
    \/ CallAdd
    \/ CallRepeated
    \/ CallGroupby
    \/ CallGetitem
    \/ CallHash
    \/ CallMostLikely
    \/ CallChoice
    \/ CallChoices
    \/ CallSample

Spec == Init /\ [][Next]_vars

-----------------------------------------------------------------------------
(* SpecProb: Prob on bounded (numerator, denominator).                     *)

Numerators == {IntV(n) : n \in -1..MaxNum}
Denominators == {None} \cup Numerators

InitProb ==
    /\ numerator \in Numerators /\ denominator \in Denominators
    /\ e1 = H /\ e2 = H /\ key_type = None /\ separator = <<>>
    /\ args = [kind |-> "iterable", items |-> <<>>]
    /\ obj = "none"
    /\ NoObject
    /\ call = [op |-> "start"]
    /\ ret = Return(Zero)

\* p = Prob(numerator, denominator)
NewProb ==
    /\ call' = [op |-> "Prob"]
    /\ ret' = Prob(numerator, denominator)
    /\ UNCHANGED <<probVars, keyVars, selfVars>>

\* p.<form>, one of the six odds properties
ReadOdds ==
    /\ ~Raised(Prob(numerator, denominator))
    /\ \E form \in OddsForms :
          /\ call' = [op |-> "odds", form |-> form]
          /\ ret' = OddsProperty(form, Prob(numerator, denominator).v)
    /\ UNCHANGED <<probVars, keyVars, selfVars>>

\* Prob.from_<form>(p.<form>): the property, then its inverse constructor
RoundTrip ==
    /\ ~Raised(Prob(numerator, denominator))
    /\ \E form \in OddsForms :
          LET odds == OddsProperty(form, Prob(numerator, denominator).v)
          IN  /\ call' = [op |-> "roundtrip", form |-> form]
              /\ ret' = IF Raised(odds) THEN odds ELSE FromOdds(form, odds.v, None)
    /\ UNCHANGED <<probVars, keyVars, selfVars>>

\* Prob.from_<form>(numerator, denominator)
CallFromOdds ==
    /\ \E form \in OddsForms :
          /\ call' = [op |-> "from_odds", form |-> form]
          /\ ret' = FromOdds(form, numerator, denominator)
    /\ UNCHANGED <<probVars, keyVars, selfVars>>

NextProb ==
    \/ NewProb
    \/ ReadOdds
    \/ RoundTrip
    \/ CallFromOdds

SpecProb == InitProb /\ [][NextProb]_vars

-----------------------------------------------------------------------------
(* SpecKey: ProbDist._key on bounded operands.                             *)

\* key_type may be any type object; only tuple is special
StrType == [k |-> "str", n |-> 0, d |-> 1]

\* ints, strs and tuples: '', "it's", (), (1,), ('H', 'T'), (('H',), 2),
\* ("it's",), ('say "hi"',), and a text of backslash, both quotes and newline
KeyOperands == {IntO(1), IntO(-2), H, StrO(<<>>), StrO(<<105, 116, 39, 115>>),
                TupO(<<>>), TupO(<<IntO(1)>>), TupO(<<H, T>>),
                TupO(<<TupO(<<H>>), IntO(2)>>),
                TupO(<<StrO(<<105, 116, 39, 115>>)>>),
                TupO(<<StrO(<<115, 97, 121, 32, 34, 104, 105, 34>>)>>),
                TupO(<<StrO(<<97, 92, 98, 39, 34, 10>>)>>)}

\* a 1-tuple of a one-character text, for every character
CharOperands == {TupO(<<StrO(<<ch>>)>>) : ch \in 0..MaxChar}

\* the operand pairs: any two of KeyOperands, and every character on either
\* side of each of them
KeyPairs == (KeyOperands \X KeyOperands) \cup (CharOperands \X KeyOperands)
            \cup (KeyOperands \X CharOperands)

InitKey ==
    /\ numerator = None /\ denominator = None
    /\ \E pr \in KeyPairs : e1 = pr[1] /\ e2 = pr[2]
    /\ key_type \in KeyTypes \cup {StrType}
    /\ separator \in Separators
    /\ args = [kind |-> "iterable", items |-> <<>>]
    /\ obj = "none"
    /\ NoObject
    /\ call = [op |-> "start"]
    /\ ret = Return(Zero)

CallKey ==
    /\ call.op = "start"
    /\ call' = [op |-> "_key"]
    /\ ret' = [exc |-> "", v |-> _key(e1, e2, key_type, separator)]
    /\ UNCHANGED <<probVars, keyVars, selfVars>>

NextKey == CallKey

SpecKey == InitKey /\ [][NextKey]_vars

-----------------------------------------------------------------------------
(* The claims.                                                             *)

\* The last call returned a distribution.
ReturnedDist == call.op \in Transformations /\ ~Raised(ret)

\* x satisfies the predicate A (a callable's verdict, a collection's membership)
Satisfies(pred, x) == IF pred.callable THEN Apply(pred.f, x) ELSE x \in pred.members

\* C1 (as claimed): every constructed distribution - built from an input, or
\* returned by such_that, remove, joint, repeated or groupby - has
\* probabilities that sum to exactly 1.
C1_SumIsOne ==
    /\ obj = "ProbDist" => Eq(Sum(space), One)
    /\ ReturnedDist => Eq(Sum(ret.v.space), One)

\* C2: when D.prob(A) > 0, D.such_that(A) holds exactly the outcomes of D
\* that satisfy A, sums to 1, and gives every x in A the probability
\* D[x] / D.prob(A).
C2_SuchThatConditions ==
    (call.op = "such_that" /\ ~Raised(prob(space, call.predicate))
        /\ Lt(Zero, prob(space, call.predicate).v))
    => /\ ~Raised(ret)
       /\ KeySet(ret.v.space) = {x \in KeySet(space) : Satisfies(call.predicate, x)}
       /\ Eq(Sum(ret.v.space), One)
       /\ \A x \in Outcomes :
             Satisfies(call.predicate, x)
             => Eq(__getitem__(ret.v.space, x),
                   Div(__getitem__(space, x), prob(space, call.predicate).v))

\* C2's case: a predicate of probability strictly between 0 and 1 was
\* conditioned on, and two outcomes were kept.
C2_Witness ==
    /\ call.op = "such_that" /\ ~Raised(ret)
    /\ Lt(Zero, prob(space, call.predicate).v)
    /\ Lt(prob(space, call.predicate).v, One)
    /\ Len(ret.v.space) = 2

\* C3 (as claimed): for 0 <= n <= d, p = Prob(n, d) comes back exactly from
\* every odds form through its matching inverse constructor.
C3_OddsRoundTrip ==
    (call.op = "roundtrip" /\ denominator # None
        /\ 0 <= numerator.n /\ numerator.n <= denominator.n)
    => ~Raised(ret) /\ Eq(ret.v, Prob(numerator, denominator).v)

\* C4 (as claimed): choices draws unweighted on a uniform distribution and
\* with the cumulative-probability list on a non-uniform one, so that an
\* outcome of probability 0 is never drawn; choice, which is choices(1)[0],
\* draws the same way.
C4_ChoicesWeights ==
    /\ call.op \in {"choices", "choice"}
         => call.cum_weights = (IF uniform THEN NoneL ELSE sorted_sumprobs)
    /\ (call.op = "choices" /\ ~Raised(ret))
         => \A j \in 1..Len(ret.v) : Lt(Zero, __getitem__(space, ret.v[j]))
    /\ (call.op = "choice" /\ ~Raised(ret))
         => Lt(Zero, __getitem__(space, ret.v))

\* C5 (as claimed): a zero-total weight set never becomes a distribution:
\* ProbDist on it raises, also for the selection made by such_that/remove.
C5_ZeroTotalFails ==
    /\ (call.op = "ProbDist" /\ IsZero(Sum(Counter(args))))
         => Raised(ret) /\ obj = "none"
    /\ (call.op = "such_that"
            /\ IsZero(Sum(Select(space, 1, _satisfying(space, call.predicate)))))
         => Raised(ret)
    /\ (call.op = "remove"
            /\ IsZero(Sum(Select(space, 1, KeySet(space) \ call.events))))
         => Raised(ret)

\* The pairs of product(self, other), and those that combine to the key k.
Pairs(c, o) == (1..Len(c)) \X (1..Len(o))
PairKey(c, o, pr) == _key(c[pr[1]].k, o[pr[2]].k, call.key_type, call.separator)
RECURSIVE SumOfProducts(_, _, _)
SumOfProducts(c, o, S) ==
    IF S = {} THEN Zero
    ELSE LET pr == CHOOSE q \in S : TRUE
         IN  Add(Mul(c[pr[1]].p, o[pr[2]].p), SumOfProducts(c, o, S \ {pr}))

JointCalled == call.op \in {"joint", "__add__"} /\ ~Raised(ret)

\* C6 (as claimed): joint gives the combined key of every pair (e1, e2) the
\* product A[e1] * B[e2].
C6_JointProduct ==
    JointCalled
    => \A pr \in Pairs(space, call.other) :
          Eq(__getitem__(ret.v.space, PairKey(space, call.other, pr)),
             Mul(space[pr[1]].p, call.other[pr[2]].p))

Quarter == Frac(1, 4)
FairCoin == <<[k |-> H, p |-> Frac(1, 2)], [k |-> T, p |-> Frac(1, 2)]>>

\* C6 (amended): joint gives the combined key of a pair the sum of
\* A[a] * B[b] over all pairs (a, b) that combine to that key (the product
\* itself when no other pair shares the key); two fair coins joined with
\* default parameters give HH, HT, TH, TT a quarter each.
C6_JointSumOfProducts ==
    JointCalled
    => /\ \A pr \in Pairs(space, call.other) :
             Eq(__getitem__(ret.v.space, PairKey(space, call.other, pr)),
                SumOfProducts(space, call.other,
                    {q \in Pairs(space, call.other) :
                        PairKey(space, call.other, q) = PairKey(space, call.other, pr)}))
       /\ (space = FairCoin /\ call.other = FairCoin
               /\ call.key_type = None /\ call.separator = <<>>)
            => ItemSet(ret.v.space) =
                 {<<StrO(<<72, 72>>), Quarter>>, <<StrO(<<72, 84>>), Quarter>>,
                  <<StrO(<<84, 72>>), Quarter>>, <<StrO(<<84, 84>>), Quarter>>}

\* C6's case: a joint in which two different pairs combined to one key.
C6_Witness ==
    /\ JointCalled
    /\ \E pr, q \in Pairs(space, call.other) :
          pr # q /\ PairKey(space, call.other, pr) = PairKey(space, call.other, q)

\* C7: the key of (e1, e2): with a separator, str(e1)+separator+str(e2),
\* whatever key_type is; else, key_type not tuple, e1+e2, or the pair when
\* that fails; else (key_type tuple) the concatenation with a bare operand
\* promoted to a 1-tuple when either is a tuple, the pair when neither is.
C7_KeyPrecedence ==
    call.op = "_key"
    => /\ separator # <<>> => ret.v = StrO(Str(e1) \o separator \o Str(e2))
       /\ (separator = <<>> /\ key_type # TupleType /\ ~Raised(Plus(e1, e2)))
            => ret.v = Plus(e1, e2).v
       /\ (separator = <<>> /\ key_type # TupleType /\ Raised(Plus(e1, e2)))
            => ret.v = TupO(<<e1, e2>>)
       /\ (separator = <<>> /\ key_type = TupleType /\ IsTuple(e1) /\ IsTuple(e2))
            => ret.v = TupO(e1.s \o e2.s)
       /\ (separator = <<>> /\ key_type = TupleType /\ IsTuple(e1) /\ ~IsTuple(e2))
            => ret.v = TupO(e1.s \o <<e2>>)
       /\ (separator = <<>> /\ key_type = TupleType /\ ~IsTuple(e1) /\ IsTuple(e2))
            => ret.v = TupO(<<e1>> \o e2.s)
       /\ (separator = <<>> /\ key_type = TupleType /\ ~IsTuple(e1) /\ ~IsTuple(e2))
            => ret.v = TupO(<<e1, e2>>)

\* C7's case: a separator given together with key_type tuple and a tuple operand.
C7_Witness ==
    /\ call.op = "_key" /\ separator # <<>> /\ key_type = TupleType
    /\ IsTuple(e1) /\ ~IsTuple(e2)

\* The rational n/d lies in [0, 1] (d None stands for 1).
InUnitInterval(n, d) ==
    \/ d > 0 /\ 0 <= n /\ n <= d
    \/ d < 0 /\ n <= 0 /\ d <= n
DenOf(den) == IF den = None THEN 1 ELSE den.n

\* C8: Prob(numerator, denominator) succeeds exactly when the rational is
\* in [0, 1], and then holds it in lowest terms; outside the interval it
\* raises the range error.
C8_ProbRange ==
    call.op = "Prob"
    => LET n == numerator.n
           d == DenOf(denominator)
       IN  /\ ~Raised(ret) <=> InUnitInterval(n, d)
           /\ ~Raised(ret) => /\ ret.v.d > 0
                              /\ GCD(ret.v.n, ret.v.d) = 1
                              /\ ret.v.n * d = n * ret.v.d
           /\ (d # 0 /\ ~InUnitInterval(n, d)) => ret.exc = "ValueError"

\* C8's case: an unreduced ratio inside the interval was constructed.
C8_Witness ==
    /\ call.op = "Prob" /\ ~Raised(ret)
    /\ denominator # None /\ ret.v.d # denominator.n /\ ret.v.n > 0

\* C9: no call on an instance changes its mapping or its uniform flag, and
\* every transformation returns a new object.
C9_NeverMutated ==
    [][obj = "ProbDist"
        => /\ obj' = obj /\ space' = space /\ uniform' = uniform
           /\ (call'.op \in Transformations /\ ~Raised(ret')) => ret'.v.new]_vars

\* C9's case: a non-member outcome was indexed on a populated, hashed instance.
C9_Witness ==
    /\ obj = "ProbDist" /\ call.op = "__getitem__"
    /\ call.outcome \notin KeySet(space)
    /\ ~hashv.none /\ ~sorted_outcomes.none

\* C10 (as claimed): once the sampling cache is populated, _setup_sampling
\* never runs again and the cached lists never change.
C10_SetupOnce ==
    [][~sorted_outcomes.none
        => /\ setups' = setups
           /\ UNCHANGED <<sorted_outcomes, sorted_probs, sorted_sumprobs>>]_vars

=============================================================================
